---------------------------- MODULE Spec2Model ----------------------------
(***************************************************************************)
(* A model of methods.py: MinimizeMethod, the wrapper that configures a    *)
(* nested minimizer (an outer global loop around an inner local method)    *)
(* from a method name, and SteppingData, the append-only .mdat progress    *)
(* log with its differential encoding of the best-fitness offset.          *)
(*                                                                         *)
(* Python values are modelled as follows: a str is a sequence of           *)
(* one-character strings (so that str.lower() is computed, character by    *)
(* character); an object or a dict is a function from attribute names or   *)
(* keys to values, so that its DOMAIN says which attributes have been      *)
(* assigned; None is the string "None"; a numpy point is a sequence of     *)
(* integers.                                                               *)
(***************************************************************************)
EXTENDS Integers, Sequences, FiniteSets

VARIABLES
    self,        \* attributes assigned so far on the MinimizeMethod object
    ctor,        \* outcome of MinimizeMethod(name, fi): "none", "ok", "RuntimeError"
    argName,     \* the name argument MinimizeMethod was constructed with
    pc,          \* "idle", or "outer" while __call__ is inside self.outer_loop
    inv,         \* arguments of the current (or last) __call__
    outerCall,   \* arguments self.outer_loop received from the current __call__
    nOuterCalls, \* calls of self.outer_loop made by the current __call__
    innerSteps,  \* internal steps the local minimizer made in this __call__
    outerCycles, \* restart cycles the outer loop made in this __call__
    cbCalls,     \* invocations of each callback value in this __call__
    outerOut,    \* outcome of the outer_loop call of the last __call__
    result,      \* outcome of the last __call__
    nInvokes,    \* __call__ invocations completed
    conEval,     \* last evaluation of the two constraint functions
    fstate,      \* the fgeneric object: _is_setdim, _dim, readiness, datafile
    lasteval,    \* f.lasteval: num and bestf
    fopt,        \* f.fopt
    sd,          \* attributes of the SteppingData object
    disk,        \* lines of the .mdat file that reached the disk
    buf,         \* lines written to sd.datafile and not flushed yet
    isOpen,      \* sd.datafile is an open handle
    prior,       \* content of the .mdat file when SteppingData was constructed
    nEndIter,    \* end_iter calls made on sd
    recCalls     \* the record calls made on sd, in call order: the arguments,
                 \* the best offset computed, the end_iter calls made before

vars == <<self, ctor, argName, pc, inv, outerCall, nOuterCalls, innerSteps,
          outerCycles, cbCalls, outerOut, result, nInvokes, conEval, fstate,
          lasteval, fopt, sd, disk, buf, isOpen, prior, nEndIter, recCalls>>

methodVars == <<self, ctor, argName>>
callVars == <<pc, inv, outerCall, nOuterCalls, innerSteps, outerCycles,
              cbCalls, outerOut, result, nInvokes>>
logVars == <<fstate, lasteval, fopt, sd, disk, buf, isOpen, prior, nEndIter,
             recCalls>>

-----------------------------------------------------------------------------
(* Bounds of the model. *)

MaxDim == 2
MaxInvokes == 2
MaxSteps == 2
MaxCycles == 2
MaxCoord == 7
MaxIters == 2
MaxRecords == 3
MaxEvals == 2

None == "None"

Put(d, k, v) == [x \in DOMAIN d \cup {k} |-> IF x = k THEN v ELSE d[x]]

EmptyObj == [a \in {} |-> None]

Min(S) == CHOOSE m \in S : \A n \in S : m <= n

-----------------------------------------------------------------------------
(* str.lower() on the letters the method names use. *)

UpperLower == [A |-> "a", B |-> "b", C |-> "c", E |-> "e", F |-> "f",
               G |-> "g", L |-> "l", N |-> "n", O |-> "o", S |-> "s",
               T |-> "t", Y |-> "y"]

LowerChar(c) == IF c \in DOMAIN UpperLower THEN UpperLower[c] ELSE c

UpperChar(c) ==
    IF \E u \in DOMAIN UpperLower : UpperLower[u] = c
    THEN CHOOSE u \in DOMAIN UpperLower : UpperLower[u] = c
    ELSE c

Lower(name) == [i \in 1..Len(name) |-> LowerChar(name[i])]

Anneal == <<"a", "n", "n", "e", "a", "l">>
Cobyla == <<"c", "o", "b", "y", "l", "a">>

\* the list ['anneal', 'cobyla'] of _setup_method
Disallowed == {Anneal, Cobyla}

\* Method names given to the constructor: every capitalisation of the two
\* unsupported names, of a supported one, of a proper prefix of an
\* unsupported name and of a name with a dash, and the empty name.
BaseNames == {Anneal, Cobyla,
              <<"b", "f", "g", "s">>,
              <<"c", "o", "b">>,
              <<"l", "-", "b">>,
              << >>}

Capitalised(base, ups) ==
    [i \in 1..Len(base) |-> IF i \in ups THEN UpperChar(base[i]) ELSE base[i]]

Names == {Capitalised(b, ups) : <<b, ups>> \in
            UNION {{<<b, u>> : u \in SUBSET (1..Len(b))} : b \in BaseNames}}

-----------------------------------------------------------------------------
(* MinimizeMethod.__init__ and _setup_method *)

BoundLow == -6
BoundHigh == 6

\* the FInstance objects: fi.dim and fi.f.precision
FInstances == {[dim |-> d, f |-> [precision |-> "1e-08"]] : d \in 1..MaxDim}

\* a comprehension over range(fi.dim - 1)
BoundsOneShort(dim) == [d \in 1..(dim - 1) |-> <<BoundLow, BoundHigh>>]

\* [(-6., +6.) for d in range(fi.dim)]
Bounds(dim) == [d \in 1..dim |-> <<BoundLow, BoundHigh>>]

\* the two COBYLA constraint dicts; "fun" names the lambda, see ConLo, ConHi
Constraints == <<[type |-> "ineq", fun |-> "ConLo"],
                 [type |-> "ineq", fun |-> "ConHi"]>>

\* the assignments of __init__ that precede the call of _setup_method
InitAttrs(name, fi) ==
    [name |-> name,
     fi |-> fi,
     outer_loop |-> "so.basinhopping",
     minimizer_kwargs |-> [bounds |-> Bounds(fi.dim),
                           constraints |-> Constraints,
                           options |-> [rhoend |-> fi.f.precision]]]

\* name in ['anneal', 'cobyla'], the .lower() forgotten
SetupRaisesCaseSensitive(name) == name \in Disallowed

\* name.lower() in ['anneal', 'cobyla']
SetupRaises(name) == Lower(name) \in Disallowed

\* self.minimizer_kwargs['method'] = name.lower()
SetupMethodLowered(obj, name) ==
    [obj EXCEPT !["minimizer_kwargs"] = Put(@, "method", Lower(name))]

\* self.minimizer_kwargs['method'] = name
SetupMethod(obj, name) ==
    [obj EXCEPT !["minimizer_kwargs"] = Put(@, "method", name)]

\* m = MinimizeMethod(name, fi): the attributes are assigned, then
\* _setup_method either raises RuntimeError or stores the method.
Construct(name, fi) ==
    /\ ctor = "none"
    /\ argName' = name
    /\ IF SetupRaises(name)
       THEN /\ self' = InitAttrs(name, fi)
            /\ ctor' = "RuntimeError"
       ELSE /\ self' = SetupMethod(InitAttrs(name, fi), name)
            /\ ctor' = "ok"
    /\ UNCHANGED <<callVars, conEval, logVars>>

\* the lambdas of the constraints: np.min(x+5) and np.min(-(x-5))
ConLoShift == 5
ConHiShift == 5

ConLo(x) == Min({x[i] + ConLoShift : i \in 1..Len(x)})
ConHi(x) == Min({-(x[i] - ConHiShift) : i \in 1..Len(x)})

ConFun(fname, x) == IF fname = "ConLo" THEN ConLo(x) ELSE ConHi(x)

Points(dim) == [1..dim -> -MaxCoord..MaxCoord]

\* a constraint-aware minimizer evaluates the "fun" of every constraint
\* of minimizer_kwargs at a point x of length fi.dim (the functions are
\* pure: one evaluation per behaviour covers every point)
EvalConstraints(x) ==
    /\ ctor = "ok"
    /\ conEval.x = << >>
    /\ conEval' = [x |-> x,
                   vals |-> [c \in 1..Len(self.minimizer_kwargs.constraints) |->
                               ConFun(self.minimizer_kwargs.constraints[c].fun, x)]]
    /\ UNCHANGED <<methodVars, callVars, logVars>>

-----------------------------------------------------------------------------
(* MinimizeMethod.__call__ and the outer loop it delegates to *)

Funs == {"fun"}
InnerCallbacks == {None, "inner_cb"}
OuterCallbacks == {None, "outer_cb"}
Callbacks == (InnerCallbacks \cup OuterCallbacks) \ {None}
OptimizeResults == {"res1", "res2"}
Errors == {"objective error", "inner optimizer error", "outer loop error",
           "inner_cb error", "outer_cb error"}

\* x0: a start point of length fi.dim
StartPoints(dim) == {[d \in 1..dim |-> 0]}

\* the two callbacks passed the wrong way round
OuterArgsSwapped(obj, fun, x0, inner_cb, outer_cb) ==
    [fun |-> fun,
     x0 |-> x0,
     callback |-> inner_cb,
     minimizer_kwargs |-> Put(obj.minimizer_kwargs, "callback", outer_cb)]

\* the arguments of self.outer_loop(fun, x0, callback = outer_cb,
\*     minimizer_kwargs = dict(callback = inner_cb, **self.minimizer_kwargs))
OuterArgs(obj, fun, x0, inner_cb, outer_cb) ==
    [fun |-> fun,
     x0 |-> x0,
     callback |-> outer_cb,
     minimizer_kwargs |-> Put(obj.minimizer_kwargs, "callback", inner_cb)]

NoOutcome == [kind |-> "none", val |-> None]

\* the call wrapped in try/except, None returned on an error
CallOutcomeSwallowed(out) ==
    IF out.kind = "raise" THEN [kind |-> "return", val |-> None] ELSE out

\* return self.outer_loop(...): the value returned is returned, an
\* exception raised passes through, there being no try statement
CallOutcome(out) == out

\* m(fun, x0, inner_cb, outer_cb) enters self.outer_loop
Call(fun, x0, inner_cb, outer_cb) ==
    /\ ctor = "ok"
    /\ pc = "idle"
    /\ nInvokes < MaxInvokes
    /\ inv' = [fun |-> fun, x0 |-> x0, inner_cb |-> inner_cb, outer_cb |-> outer_cb]
    /\ outerCall' = OuterArgs(self, fun, x0, inner_cb, outer_cb)
    /\ nOuterCalls' = 1
    /\ innerSteps' = 0
    /\ outerCycles' = 0
    /\ cbCalls' = [c \in Callbacks |-> 0]
    /\ outerOut' = NoOutcome
    /\ result' = NoOutcome
    /\ pc' = "outer"
    /\ UNCHANGED <<methodVars, nInvokes, conEval, logVars>>

\* a callback value is invoked, None is not
Invoked(cb) == IF cb = None THEN cbCalls ELSE [cbCalls EXCEPT ![cb] = @ + 1]

\* the local minimizer ends one internal step and invokes the callback of
\* the minimizer_kwargs it was given
InnerStep ==
    /\ pc = "outer"
    /\ innerSteps < MaxSteps
    /\ innerSteps' = innerSteps + 1
    /\ cbCalls' = Invoked(outerCall.minimizer_kwargs.callback)
    /\ UNCHANGED <<methodVars, pc, inv, outerCall, nOuterCalls, outerCycles,
                   outerOut, result, nInvokes, conEval, logVars>>

\* the outer loop ends one restart cycle and invokes the callback it was given
OuterCycle ==
    /\ pc = "outer"
    /\ outerCycles < MaxCycles
    /\ outerCycles' = outerCycles + 1
    /\ cbCalls' = Invoked(outerCall.callback)
    /\ UNCHANGED <<methodVars, pc, inv, outerCall, nOuterCalls, innerSteps,
                   outerOut, result, nInvokes, conEval, logVars>>

\* a callback can raise only from an invocation of it
CanRaise(e) ==
    /\ e = "inner_cb error" =>
          /\ outerCall.minimizer_kwargs.callback # None
          /\ cbCalls[outerCall.minimizer_kwargs.callback] > 0
    /\ e = "outer_cb error" =>
          /\ outerCall.callback # None
          /\ cbCalls[outerCall.callback] > 0

\* self.outer_loop returns res, and so __call__ ends
OuterReturns(res) ==
    /\ pc = "outer"
    /\ outerOut' = [kind |-> "return", val |-> res]
    /\ result' = CallOutcome(outerOut')
    /\ pc' = "idle"
    /\ nInvokes' = nInvokes + 1
    /\ UNCHANGED <<methodVars, inv, outerCall, nOuterCalls, innerSteps,
                   outerCycles, cbCalls, conEval, logVars>>

\* an error raised by the objective, the local minimizer, the outer loop
\* or a callback leaves self.outer_loop, and so __call__ ends
OuterRaises(e) ==
    /\ pc = "outer"
    /\ CanRaise(e)
    /\ outerOut' = [kind |-> "raise", val |-> e]
    /\ result' = CallOutcome(outerOut')
    /\ pc' = "idle"
    /\ nInvokes' = nInvokes + 1
    /\ UNCHANGED <<methodVars, inv, outerCall, nOuterCalls, innerSteps,
                   outerCycles, cbCalls, conEval, logVars>>

-----------------------------------------------------------------------------
(* SteppingData *)

\* the header line SteppingData.__init__ writes
Header == <<"% function evaluation | portfolio iteration | instance index | instance method | instance invocations | instance best noise-free fitness - Fopt | best noise-free fitness - Fopt">>

\* '%d' % n and '%+10.9e' % v: the text of a number in the given format
FmtD(n) == [fmt |-> "%d", of |-> n]
FmtE(v) == [fmt |-> "%+10.9e", of |-> v]

\* os.path.splitext(path)[0] + '.mdat'
MdatPath(path) == [stem |-> path.stem, ext |-> ".mdat"]

\* open(path, 'w'): the file is truncated
OpenTruncate(content) == << >>

\* open(path, 'a'): the content of the file is kept
OpenAppend(content) == content

\* the fgeneric object after
\*   if not f._is_setdim or f._dim != fi.dim: f._setdim(fi.dim)
\*   if not f._is_ready(): f._readytostart()
Readied(f, dim) ==
    LET g == IF ~f.is_setdim \/ f.dim # dim
             THEN [f EXCEPT !.is_setdim = TRUE, !.dim = dim]
             ELSE f
    IN  IF ~g.ready THEN [g EXCEPT !.ready = TRUE] ELSE g

\* SteppingData(fi)
SDInit(fi) ==
    /\ DOMAIN sd = {}
    /\ sd' = [f |-> "fi.f", total_iters |-> 0, last_best |-> << >>,
              datafile |-> MdatPath(fstate.datafile)]
    /\ fstate' = Readied(fstate, fi.dim)
    /\ prior' = disk
    /\ disk' = OpenAppend(disk)
    /\ buf' = <<Header>>
    /\ isOpen' = TRUE
    /\ UNCHANGED <<methodVars, callVars, conEval, lasteval, fopt, nEndIter,
                   recCalls>>

\* self.total_iters += 2
IncItersTwice(n) == n + 2

\* self.total_iters += 1
IncIters(n) == n + 1

\* sd.end_iter()
EndIter ==
    /\ DOMAIN sd # {}
    /\ sd.total_iters < MaxIters
    /\ sd' = [sd EXCEPT !.total_iters = IncIters(@)]
    /\ nEndIter' = nEndIter + 1
    /\ UNCHANGED <<methodVars, callVars, conEval, fstate, lasteval, fopt,
                   disk, buf, isOpen, prior, recCalls>>

\* best = e.bestf - self.f.fopt
BestOffset(e, fo) == e.bestf - fo

\* the column written only when the best offset improved
WritesBestOnImprovement(last_best, best) ==
    last_best = << >> \/ best < last_best[1]

\* self.last_best is None or best != self.last_best
\* (last_best is << >> for None and <<v>> for the value v)
WritesBest(last_best, best) == last_best = << >> \/ best # last_best[1]

\* the fields of res
RecordLine(e, total_iters, i, name, iters, fitness, last_best, best) ==
    <<FmtD(e.num), FmtD(total_iters), FmtD(i), name, FmtD(iters), FmtE(fitness)>>
    \o (IF WritesBest(last_best, best) THEN <<FmtE(best)>> ELSE << >>)

\* self.last_best after record
NextLastBest(last_best, best) ==
    IF WritesBest(last_best, best) THEN <<best>> ELSE last_best

\* self.datafile.write(res + '\n'); self.datafile.flush()
WriteFlush(content, pending, line) == content \o pending \o <<line>>

\* the values f.lasteval.bestf takes
BestVals == 0..MaxEvals


\* sd.record(i, name, iters, fitness, point); point is not read
Record(i, name, iters, fitness, point) ==
    /\ DOMAIN sd # {}
    /\ isOpen
    /\ Len(recCalls) < MaxRecords
    /\ LET best == BestOffset(lasteval, fopt)
           line == RecordLine(lasteval, sd.total_iters, i, name, iters,
                              fitness, sd.last_best, best)
       IN  /\ sd' = [sd EXCEPT !.last_best = NextLastBest(@, best)]
           /\ disk' = WriteFlush(disk, buf, line)
           /\ buf' = << >>
           /\ recCalls' = Append(recCalls,
                  [i |-> i, name |-> name, iters |-> iters, fitness |-> fitness,
                   num |-> lasteval.num, best |-> best, enditers |-> nEndIter])
    /\ UNCHANGED <<methodVars, callVars, conEval, fstate, lasteval, fopt,
                   isOpen, prior, nEndIter>>

\* the benchmark function is evaluated: f.lasteval changes
Evaluate(b) ==
    /\ lasteval.num < MaxEvals
    /\ lasteval' = [num |-> lasteval.num + 1, bestf |-> b]
    /\ UNCHANGED <<methodVars, callVars, conEval, fstate, fopt, sd, disk, buf,
                   isOpen, prior, nEndIter, recCalls>>

-----------------------------------------------------------------------------
(* Specifications *)

NoCall == [fun |-> None, x0 |-> << >>, inner_cb |-> None, outer_cb |-> None]
NoOuterCall == [fun |-> None, x0 |-> << >>, callback |-> None,
                minimizer_kwargs |-> EmptyObj]

InitMethod ==
    /\ self = EmptyObj
    /\ ctor = "none"
    /\ argName = << >>
    /\ pc = "idle"
    /\ inv = NoCall
    /\ outerCall = NoOuterCall
    /\ nOuterCalls = 0
    /\ innerSteps = 0
    /\ outerCycles = 0
    /\ cbCalls = [c \in Callbacks |-> 0]
    /\ outerOut = NoOutcome
    /\ result = NoOutcome
    /\ nInvokes = 0
    /\ conEval = [x |-> << >>, vals |-> << >>]

\* a .mdat file an earlier run left
OldRun == <<Header, <<FmtD(1), FmtD(0), FmtD(0), <<"t", "n", "c">>, FmtD(1),
                      FmtE(1), FmtE(1)>> >>

\* the benchmark function and the .mdat file before the run
LogStart(fs, le, fo, content) ==
    /\ fstate = fs
    /\ lasteval = le
    /\ fopt = fo
    /\ sd = EmptyObj
    /\ disk = content
    /\ buf = << >>
    /\ isOpen = FALSE
    /\ prior = << >>
    /\ nEndIter = 0
    /\ recCalls = << >>

DataFile == [stem |-> "bbobexp_f1", ext |-> ".dat"]

\* A run of the driver: it constructs the method and the log for a fresh
\* benchmark function, and calls the method.
Init ==
    /\ InitMethod
    /\ LogStart([is_setdim |-> FALSE, dim |-> 1, ready |-> FALSE,
                 datafile |-> DataFile],
                [num |-> 0, bestf |-> MaxEvals], 0, << >>)

Next ==
    \/ \E name \in Names, fi \in FInstances : Construct(name, fi)
    \/ \E fi \in FInstances : SDInit(fi)
    \/ /\ ctor = "ok"
       /\ \E fun \in Funs, x0 \in StartPoints(self.fi.dim),
             icb \in InnerCallbacks, ocb \in OuterCallbacks :
               Call(fun, x0, icb, ocb)
    \/ InnerStep
    \/ OuterCycle
    \/ \E res \in OptimizeResults : OuterReturns(res)
    \/ \E e \in Errors : OuterRaises(e)

Spec == Init /\ [][Next]_vars

\* The constraint functions of a constructed method, evaluated at the
\* points of a grid.
NextCons ==
    \/ \E name \in Names, fi \in FInstances : Construct(name, fi)
    \/ /\ ctor = "ok"
       /\ conEval.x = << >>
       /\ \E x \in Points(self.fi.dim) : EvalConstraints(x)

SpecCons == Init /\ [][NextCons]_vars

\* The progress log: any interleaving of record and end_iter calls and of
\* evaluations of the benchmark function, on a new or an existing file.
InitLog ==
    /\ InitMethod
    /\ \E fs \in [is_setdim : BOOLEAN, dim : {1, MaxDim}, ready : BOOLEAN,
                   datafile : {DataFile}],
          le \in [num : {0}, bestf : BestVals],
          fo \in {0, 1},
          content \in {<< >>, OldRun} :
            /\ fs.ready => fs.is_setdim
            /\ LogStart(fs, le, fo, content)

NextLog ==
    \/ \E fi \in FInstances : fi.dim = MaxDim /\ SDInit(fi)
    \/ EndIter
    \/ \E i \in {1}, name \in {<<"b", "f", "g", "s">>}, iters \in {2},
          fitness \in {3} :
            Record(i, name, iters, fitness, << >>)
    \/ \E b \in BestVals : Evaluate(b)

SpecLog == InitLog /\ [][NextLog]_vars

-----------------------------------------------------------------------------
(* Properties *)

\* two names equal under case-insensitive comparison
SameLetter(c, d) ==
    \/ c = d
    \/ \E u \in DOMAIN UpperLower : {c, d} = {u, UpperLower[u]}

EqualsIgnoringCase(a, b) ==
    /\ Len(a) = Len(b)
    /\ \A i \in 1..Len(a) : SameLetter(a[i], b[i])

IsDisallowed(name) ==
    EqualsIgnoringCase(name, Anneal) \/ EqualsIgnoringCase(name, Cobyla)

\* the content of the .mdat file, flushed or not, and the line the k-th
\* record call of sd added to it
FileContent == disk \o buf
LineOf(k) == FileContent[Len(prior) + 1 + k]

Constructed == DOMAIN sd # {}
CallMade == pc = "outer" \/ nInvokes > 0
RunOver == Constructed /\ pc = "idle" /\ nInvokes > 0

\* C1: the line of a record call carries the best-offset column (a seventh
\* field, the formatted offset) if and only if the call is the first record
\* call on the log or its best offset differs from the one computed by the
\* record call before it, whatever end_iter calls come in between.
C1_BestColumnIffOffsetChanged ==
    \A k \in 1..Len(recCalls) :
        /\ Len(LineOf(k)) \in {6, 7}
        /\ (Len(LineOf(k)) = 7) <=>
               (k = 1 \/ recCalls[k].best # recCalls[k - 1].best)
        /\ Len(LineOf(k)) = 7 => LineOf(k)[7] = FmtE(recCalls[k].best)

\* Scenario C with an end_iter call in between: the same offset twice, then
\* a changed one.
C1_Witness ==
    /\ Len(recCalls) = 3
    /\ nEndIter > 0
    /\ recCalls[1].best = recCalls[2].best
    /\ recCalls[3].best # recCalls[2].best
    /\ Len(LineOf(1)) = 7
    /\ Len(LineOf(2)) = 6
    /\ Len(LineOf(3)) = 7

\* C2 as stated: when construction fails for an unsupported name, nothing
\* has been set on the object.
C2_NothingSetWhenRaised ==
    ctor = "RuntimeError" => DOMAIN self = {}

\* C2 as amended: constructing with a name that equals 'anneal' or 'cobyla'
\* case-insensitively raises RuntimeError, the method selector is never
\* stored and the log is untouched; name, fi, outer_loop and the bounds,
\* constraints and options of minimizer_kwargs are set by then.
C2_DisallowedNameRaises ==
    [][(ctor = "none" /\ ctor' # "none" /\ IsDisallowed(argName'))
          => /\ ctor' = "RuntimeError"
             /\ DOMAIN self' = {"name", "fi", "outer_loop", "minimizer_kwargs"}
             /\ DOMAIN self'.minimizer_kwargs = {"bounds", "constraints", "options"}
             /\ UNCHANGED <<logVars, callVars>>]_vars

C2_Witness ==
    /\ ctor = "RuntimeError"
    /\ argName = <<"C", "o", "b", "y", "L", "a">>
    /\ "method" \notin DOMAIN self.minimizer_kwargs
    /\ "bounds" \in DOMAIN self.minimizer_kwargs

\* C3: for a name that is neither 'anneal' nor 'cobyla' case-insensitively,
\* construction succeeds, minimizer_kwargs['method'] is the name as given,
\* and every call of the method passes that selector to the outer loop.
C3_SelectorIsNameAsGiven ==
    (ctor # "none" /\ ~IsDisallowed(argName)) =>
        /\ ctor = "ok"
        /\ self.minimizer_kwargs.method = argName
        /\ CallMade => outerCall.minimizer_kwargs.method = argName

C3_Witness ==
    /\ ctor = "ok"
    /\ argName = <<"B", "F", "G", "S">>
    /\ self.minimizer_kwargs.method = <<"B", "F", "G", "S">>
    /\ nInvokes = MaxInvokes
    /\ outerCall.minimizer_kwargs.method = <<"B", "F", "G", "S">>

\* C4: after SteppingData(fi), n record calls and any end_iter calls, the
\* file is what it was before, then one header line, then the n lines of
\* the record calls in call order; end_iter writes nothing.
C4_HeaderOnceOneLinePerRecord ==
    Constructed =>
        /\ Len(FileContent) = Len(prior) + 1 + Len(recCalls)
        /\ SubSeq(FileContent, 1, Len(prior)) = prior
        /\ FileContent[Len(prior) + 1] = Header
        /\ \A k \in 1..Len(recCalls) :
              /\ LineOf(k) # Header
              /\ SubSeq(LineOf(k), 1, 6) =
                    <<FmtD(recCalls[k].num), LineOf(k)[2], FmtD(recCalls[k].i),
                      recCalls[k].name, FmtD(recCalls[k].iters),
                      FmtE(recCalls[k].fitness)>>

C4_Witness ==
    /\ Constructed
    /\ prior = OldRun
    /\ Len(recCalls) = 3
    /\ nEndIter = 2
    /\ Len(disk) = Len(OldRun) + 4

\* C5: total_iters starts at 0, moves only by end_iter and by one each
\* time; the second field of every record line is the number of end_iter
\* calls made before that record call, so it never decreases along the log.
C5_SecondFieldCountsEndIter ==
    Constructed =>
        /\ sd.total_iters = nEndIter
        /\ \A k \in 1..Len(recCalls) :
              /\ LineOf(k)[2] = FmtD(recCalls[k].enditers)
              /\ \A j \in 1..(k - 1) : LineOf(j)[2].of <= LineOf(k)[2].of

C5_Witness ==
    /\ Len(recCalls) = 3
    /\ LineOf(1)[2] = FmtD(0)
    /\ LineOf(2)[2] = FmtD(2)
    /\ LineOf(3)[2] = FmtD(2)
    /\ sd.total_iters = 2

\* C6: both constraint functions are non-negative at x if and only if every
\* coordinate of x lies within the bounds, that is in [-6, +6].
C6_ConstraintsEnforceTheBounds ==
    conEval.x # << >> =>
        ((\A c \in 1..Len(conEval.vals) : conEval.vals[c] >= 0)
           <=> (\A d \in 1..Len(conEval.x) :
                   /\ self.minimizer_kwargs.bounds[d][1] <= conEval.x[d]
                   /\ conEval.x[d] <= self.minimizer_kwargs.bounds[d][2]))

\* C7: once the run is over (the method call has returned or raised), the
\* handle SteppingData opened is closed.
C7_HandleClosedWhenRunOver ==
    RunOver => ~isOpen

\* C8: the outcome of a call of the method is the outcome of its one call
\* of the outer loop: the same value returned, the same error raised.
C8_OutcomeIsOuterLoopOutcome ==
    /\ pc = "outer" => (nOuterCalls = 1 /\ result = NoOutcome)
    /\ (pc = "idle" /\ nInvokes > 0) =>
          /\ nOuterCalls = 1
          /\ outerOut.kind \in {"return", "raise"}
          /\ result = outerOut

C8_Witness ==
    /\ pc = "idle"
    /\ nInvokes = MaxInvokes
    /\ result = [kind |-> "raise", val |-> "inner_cb error"]
    /\ outerOut = result

\* C9: the outer loop receives the caller's outer_cb as its callback and
\* the caller's inner_cb inside minimizer_kwargs, so inner_cb has been
\* invoked once per internal step and outer_cb once per restart cycle.
C9_CallbacksPassedThrough ==
    CallMade =>
        /\ outerCall.callback = inv.outer_cb
        /\ outerCall.minimizer_kwargs.callback = inv.inner_cb
        /\ inv.inner_cb # None => cbCalls[inv.inner_cb] = innerSteps
        /\ inv.outer_cb # None => cbCalls[inv.outer_cb] = outerCycles
        /\ inv.inner_cb = None => cbCalls["inner_cb"] = 0
        /\ inv.outer_cb = None => cbCalls["outer_cb"] = 0

\* Scenario D: k = MaxSteps internal steps and no restart cycle.
C9_Witness ==
    /\ pc = "idle"
    /\ nInvokes > 0
    /\ inv.inner_cb = "inner_cb"
    /\ inv.outer_cb = "outer_cb"
    /\ innerSteps = MaxSteps
    /\ cbCalls["inner_cb"] = MaxSteps
    /\ outerCycles = 0
    /\ cbCalls["outer_cb"] = 0

\* C10: the bounds of a constructed method are fi.dim pairs (-6, +6), and
\* calls of the method leave the stored bounds, constraints, options and
\* selector as construction set them, the callback going into a new dict.
C10_BoundsLengthDim ==
    ctor = "ok" =>
        /\ Len(self.minimizer_kwargs.bounds) = self.fi.dim
        /\ \A d \in 1..self.fi.dim : self.minimizer_kwargs.bounds[d] = <<-6, 6>>
        /\ DOMAIN self.minimizer_kwargs =
              {"bounds", "constraints", "options", "method"}
        /\ self.minimizer_kwargs.constraints = Constraints
        /\ self.minimizer_kwargs.options = [rhoend |-> self.fi.f.precision]
        /\ self.minimizer_kwargs.method = self.name
        /\ CallMade =>
              outerCall.minimizer_kwargs =
                Put(self.minimizer_kwargs, "callback", inv.inner_cb)

\* Scenario A, after the last call of the method.
C10_Witness ==
    /\ ctor = "ok"
    /\ argName = <<"B", "F", "G", "S">>
    /\ self.fi.dim = 2
    /\ self.minimizer_kwargs.bounds = <<<<-6, 6>>, <<-6, 6>>>>
    /\ nInvokes = MaxInvokes

=============================================================================
